---- MODULE Spec2Model ----
(***************************************************************************)
(* Branch commands of jj (src/src/commands/branch.rs): create, set,        *)
(* delete, forget and list over the view's branches, the fast-forward      *)
(* check that guards `set`, and the ahead/behind counts printed by `list`. *)
(***************************************************************************)
EXTENDS Integers, Sequences, FiniteSets, TLC

(***************************************************************************)
(* Bounds of the model.                                                    *)
(***************************************************************************)
\* longest `names` argument list of one command
MaxNames == 2
\* longest `--glob` argument list of one forget command
MaxGlobs == 1

(***************************************************************************)
(* The commit graph behind the index, a diamond:                           *)
(*   1 <- 2, 1 <- 3, {2, 3} <- 4                                           *)
(* It holds a chain (1, 2, 4), an unrelated pair (2, 3) and a merge (4).   *)
(***************************************************************************)
Commits == 1..4

Parents(c) ==
    IF c = 1 THEN {}
    ELSE IF c = 4 THEN {2, 3}
    ELSE {1}

\* the commits reachable from c, c included
RECURSIVE Reachable(_)
Reachable(c) == {c} \cup UNION {Reachable(p) : p \in Parents(c)}

\* Index::is_ancestor(a, b): a is b or an ancestor of b
IsAncestor(a, b) == a \in Reachable(b)

\* Index::walk_revs(wanted, unwanted): the commits reachable from a wanted
\* head and from no unwanted head
WalkRevs(wanted, unwanted) ==
    UNION {Reachable(h) : h \in wanted} \ UNION {Reachable(h) : h \in unwanted}

(***************************************************************************)
(* RefTarget and Option<RefTarget>.                                        *)
(***************************************************************************)
Normal(id) == [kind |-> "Normal", adds |-> {id}, removes |-> {}]

Conflict(adds, removes) == [kind |-> "Conflict", adds |-> adds, removes |-> removes]

\* Option::None
None == [kind |-> "None", adds |-> {}, removes |-> {}]

\* RefTarget::adds()
Adds(target) == target.adds

NormalTargets == {Normal(c) : c \in Commits}

\* conflicts of two heads that displaced one earlier target: nested heads
\* ({1, 2} and {3, 4}: one is an ancestor of the other) and unrelated heads
\* ({2, 3})
ConflictTargets ==
    {Conflict({1, 2}, {1}), Conflict({2, 3}, {1}), Conflict({3, 4}, {2})}

Targets == NormalTargets \cup ConflictTargets

(***************************************************************************)
(* View: branch name -> BranchTarget {local_target, remote_targets}.       *)
(* Branch and remote names are sequences of characters.                    *)
(***************************************************************************)
BranchNames == {<<"a">>, <<"a", "b">>}

Remotes == {<<"o">>}

EmptyMap == [x \in {} |-> None]

BranchTarget(local, remotes) == [local_target |-> local, remote_targets |-> remotes]

\* View::get_local_branch
GetLocalBranch(v, name) ==
    IF name \in DOMAIN v THEN v[name].local_target ELSE None

\* View::set_local_branch: entry(name).or_default().local_target = Some(target)
SetLocalBranch(v, name, target) ==
    [n \in DOMAIN v \cup {name} |->
        IF n = name
        THEN BranchTarget(target, IF name \in DOMAIN v THEN v[name].remote_targets ELSE EmptyMap)
        ELSE v[n]]

\* View::remove_branch
RemoveBranch(v, name) == [n \in DOMAIN v \ {name} |-> v[n]]

\* View::remove_local_branch: clears the local target and drops the record
\* when no remote target is left
RemoveLocalBranch(v, name) ==
    IF name \notin DOMAIN v THEN v
    ELSE IF DOMAIN v[name].remote_targets = {} THEN RemoveBranch(v, name)
    ELSE [v EXCEPT ![name].local_target = None]

(***************************************************************************)
(* Strings: character order, lexicographic order (BTreeMap / BTreeSet      *)
(* iteration), and glob::Pattern.                                          *)
(***************************************************************************)
\* the characters in use, in code-point order
Alphabet == <<"*", "?", "[", "a", "b", "o">>

CharCode(ch) == CHOOSE i \in 1..Len(Alphabet) : Alphabet[i] = ch

RECURSIVE LexLess(_, _)
LexLess(s, t) ==
    IF t = <<>> THEN FALSE
    ELSE IF s = <<>> THEN TRUE
    ELSE IF Head(s) = Head(t) THEN LexLess(Tail(s), Tail(t))
    ELSE CharCode(Head(s)) < CharCode(Head(t))

\* the elements of a set of strings in ascending order
RECURSIVE SortedSeq(_)
SortedSeq(S) ==
    IF S = {} THEN <<>>
    ELSE LET m == CHOOSE x \in S : \A y \in S : x = y \/ LexLess(x, y)
         IN  <<m>> \o SortedSeq(S \ {m})

\* glob::Pattern::new: an unclosed "[" is a syntax error
PatternNew(glob) == \A i \in 1..Len(glob) : glob[i] # "["

\* glob::Pattern::matches: "?" matches one character, "*" any run of them
RECURSIVE PatternMatches(_, _)
PatternMatches(glob, s) ==
    IF glob = <<>> THEN s = <<>>
    ELSE IF Head(glob) = "*"
         THEN PatternMatches(Tail(glob), s)
              \/ (s # <<>> /\ PatternMatches(glob, Tail(s)))
    ELSE /\ s # <<>>
         /\ (Head(glob) = "?" \/ Head(glob) = Head(s))
         /\ PatternMatches(Tail(glob), Tail(s))

(***************************************************************************)
(* Revisions and transactions (WorkspaceCommandHelper).                    *)
(***************************************************************************)
\* a revision argument is modelled by the set of commits it evaluates to
Revisions == {{}} \cup {{c} : c \in Commits} \cup {{1, 2}}

\* resolve_single_rev: exactly one commit, or an error
ResolveSingleRev(revision) ==
    IF revision = {} THEN [ok |-> FALSE, err |-> "NoSuchRevision", id |-> 0]
    ELSE IF Cardinality(revision) > 1 THEN [ok |-> FALSE, err |-> "AmbiguousRevision", id |-> 0]
    ELSE [ok |-> TRUE, err |-> "", id |-> CHOOSE c \in revision : TRUE]

\* the calls a command makes on tx.mut_repo()
Mutation(call, name, target) == [call |-> call, name |-> name, target |-> target]

ApplyMutation(v, m) ==
    IF m.call = "set_local_branch" THEN SetLocalBranch(v, m.name, m.target)
    ELSE IF m.call = "remove_local_branch" THEN RemoveLocalBranch(v, m.name)
    ELSE RemoveBranch(v, m.name)

RECURSIVE ApplyMutations(_, _)
ApplyMutations(v, ms) ==
    IF ms = <<>> THEN v ELSE ApplyMutations(ApplyMutation(v, Head(ms)), Tail(ms))

\* what one command leaves behind
Outcome(res, v, started, ms, warn) ==
    [result |-> res, view |-> v, tx_started |-> started, mutations |-> ms, warned |-> warn]

\* a command that returns Err before start_transaction
Fail(v, err, warn) == Outcome(err, v, FALSE, <<>>, warn)

\* start_transaction, the mutations, finish_transaction(ui, tx)?: the
\* transaction's view replaces the repo's view unless finishing fails
FinishTransaction(v, ms, warn, finish_ok) ==
    IF finish_ok THEN Outcome("Ok", ApplyMutations(v, ms), TRUE, ms, warn)
    ELSE Outcome("TransactionConflict", v, TRUE, ms, warn)

(***************************************************************************)
(* cmd_branch and its helpers.                                             *)
(***************************************************************************)
\* mutant: a name passes when the view has a record for it, local or not
validate_names_in_view(v, names) ==
    \A i \in 1..Len(names) : names[i] \in DOMAIN v

validate_branch_names_exist(v, names) ==
    \A i \in 1..Len(names) : GetLocalBranch(v, names[i]) # None

\* None when a pattern does not compile; otherwise the matching branch names
find_globs_ok(globs) == \A i \in 1..Len(globs) : PatternNew(globs[i])

\* mutant: only branches with a local target are matched
find_globs_local(v, globs) ==
    {branch_name \in DOMAIN v :
        /\ v[branch_name].local_target # None
        /\ \E i \in 1..Len(globs) : PatternMatches(globs[i], branch_name)}

find_globs(v, globs) ==
    {branch_name \in DOMAIN v :
        \E i \in 1..Len(globs) : PatternMatches(globs[i], branch_name)}

\* mutant: the current target itself does not count as an ancestor
is_fast_forward_strict(v, branch_name, new_target_id) ==
    LET current_target == GetLocalBranch(v, branch_name)
    IN  IF current_target # None
        THEN \E add \in Adds(current_target) :
                add # new_target_id /\ IsAncestor(add, new_target_id)
        ELSE TRUE

\* mutant: a branch without a local target cannot be moved
is_fast_forward_known(v, branch_name, new_target_id) ==
    LET current_target == GetLocalBranch(v, branch_name)
    IN  IF current_target # None
        THEN \E add \in Adds(current_target) : IsAncestor(add, new_target_id)
        ELSE FALSE

\* mutant: every head of the current target must be an ancestor
is_fast_forward_all(v, branch_name, new_target_id) ==
    LET current_target == GetLocalBranch(v, branch_name)
    IN  IF current_target # None
        THEN \A add \in Adds(current_target) : IsAncestor(add, new_target_id)
        ELSE TRUE

is_fast_forward(v, branch_name, new_target_id) ==
    LET current_target == GetLocalBranch(v, branch_name)
    IN  IF current_target # None
        THEN \E add \in Adds(current_target) : IsAncestor(add, new_target_id)
        ELSE TRUE

\* mutant: a name given twice collides with itself
CmdCreate_no_duplicates(v, names, revision, finish_ok) ==
    IF \/ \E i \in 1..Len(names) : GetLocalBranch(v, names[i]) # None
       \/ \E i, j \in 1..Len(names) : i < j /\ names[i] = names[j]
    THEN Fail(v, "NameCollision", FALSE)
    ELSE LET warn == Len(names) > 1
             target_commit == ResolveSingleRev(revision)
         IN  IF ~target_commit.ok THEN Fail(v, target_commit.err, warn)
             ELSE FinishTransaction(v,
                    [i \in 1..Len(names) |->
                        Mutation("set_local_branch", names[i], Normal(target_commit.id))],
                    warn, finish_ok)

\* mutant: only the first name is checked for a collision
CmdCreate_first_only(v, names, revision, finish_ok) ==
    IF GetLocalBranch(v, names[1]) # None
    THEN Fail(v, "NameCollision", FALSE)
    ELSE LET warn == Len(names) > 1
             target_commit == ResolveSingleRev(revision)
         IN  IF ~target_commit.ok THEN Fail(v, target_commit.err, warn)
             ELSE FinishTransaction(v,
                    [i \in 1..Len(names) |->
                        Mutation("set_local_branch", names[i], Normal(target_commit.id))],
                    warn, finish_ok)

\* mutant: a name that has a record collides, local target or not
CmdCreate_in_view(v, names, revision, finish_ok) ==
    IF \E i \in 1..Len(names) : names[i] \in DOMAIN v
    THEN Fail(v, "NameCollision", FALSE)
    ELSE LET warn == Len(names) > 1
             target_commit == ResolveSingleRev(revision)
         IN  IF ~target_commit.ok THEN Fail(v, target_commit.err, warn)
             ELSE FinishTransaction(v,
                     [i \in 1..Len(names) |->
                         Mutation("set_local_branch", names[i], Normal(target_commit.id))],
                     warn, finish_ok)

CmdCreate(v, names, revision, finish_ok) ==
    IF \E i \in 1..Len(names) : GetLocalBranch(v, names[i]) # None
    THEN Fail(v, "NameCollision", FALSE)
    ELSE LET warn == Len(names) > 1
             target_commit == ResolveSingleRev(revision)
         IN  IF ~target_commit.ok THEN Fail(v, target_commit.err, warn)
             ELSE FinishTransaction(v,
                    [i \in 1..Len(names) |->
                        Mutation("set_local_branch", names[i], Normal(target_commit.id))],
                    warn, finish_ok)

\* mutant: the branches that fast-forward are moved, the others skipped
CmdSet_per_branch(v, names, revision, allow_backwards, finish_ok) ==
    LET warn == Len(names) > 1
        target_commit == ResolveSingleRev(revision)
    IN  IF ~target_commit.ok THEN Fail(v, target_commit.err, warn)
        ELSE IF /\ ~allow_backwards
                /\ ~\E i \in 1..Len(names) : is_fast_forward(v, names[i], target_commit.id)
        THEN Fail(v, "NonFastForward", warn)
        ELSE FinishTransaction(v,
                SelectSeq([i \in 1..Len(names) |->
                              Mutation("set_local_branch", names[i], Normal(target_commit.id))],
                          LAMBDA m : allow_backwards
                                     \/ is_fast_forward(v, m.name, target_commit.id)),
                warn, finish_ok)

\* mutant: the fast-forward check runs even with --allow-backwards
CmdSet_always_checks(v, names, revision, allow_backwards, finish_ok) ==
    LET warn == Len(names) > 1
        target_commit == ResolveSingleRev(revision)
    IN  IF ~target_commit.ok THEN Fail(v, target_commit.err, warn)
        ELSE IF ~\A i \in 1..Len(names) : is_fast_forward(v, names[i], target_commit.id)
        THEN Fail(v, "NonFastForward", warn)
        ELSE FinishTransaction(v,
                [i \in 1..Len(names) |->
                    Mutation("set_local_branch", names[i], Normal(target_commit.id))],
                warn, finish_ok)

\* mutant: a conflicted branch takes the commit as one more head
CmdSet_keeps_conflict(v, names, revision, allow_backwards, finish_ok) ==
    LET warn == Len(names) > 1
        target_commit == ResolveSingleRev(revision)
    IN  IF ~target_commit.ok THEN Fail(v, target_commit.err, warn)
        ELSE IF /\ ~allow_backwards
                /\ ~\A i \in 1..Len(names) : is_fast_forward(v, names[i], target_commit.id)
        THEN Fail(v, "NonFastForward", warn)
        ELSE FinishTransaction(v,
                [i \in 1..Len(names) |->
                    LET current_target == GetLocalBranch(v, names[i])
                    IN  Mutation("set_local_branch", names[i],
                            IF current_target.kind = "Conflict"
                            THEN Conflict(current_target.adds \cup {target_commit.id},
                                          current_target.removes)
                            ELSE Normal(target_commit.id))],
                warn, finish_ok)

\* BranchSubcommand::Set
CmdSet(v, names, revision, allow_backwards, finish_ok) ==
    LET warn == Len(names) > 1
        target_commit == ResolveSingleRev(revision)
    IN  IF ~target_commit.ok THEN Fail(v, target_commit.err, warn)
        ELSE IF /\ ~allow_backwards
                /\ ~\A i \in 1..Len(names) : is_fast_forward(v, names[i], target_commit.id)
        THEN Fail(v, "NonFastForward", warn)
        ELSE FinishTransaction(v,
                [i \in 1..Len(names) |->
                    Mutation("set_local_branch", names[i], Normal(target_commit.id))],
                warn, finish_ok)

\* mutant: delete drops the whole record, as forget does
CmdDelete_remove_branch(v, names, finish_ok) ==
    IF ~validate_branch_names_exist(v, names) THEN Fail(v, "UnknownBranch", FALSE)
    ELSE FinishTransaction(v,
            [i \in 1..Len(names) |-> Mutation("remove_branch", names[i], None)],
            FALSE, finish_ok)

\* mutant: delete writes an absent local target and keeps the record
CmdDelete_clear_target(v, names, finish_ok) ==
    IF ~validate_branch_names_exist(v, names) THEN Fail(v, "UnknownBranch", FALSE)
    ELSE FinishTransaction(v,
            [i \in 1..Len(names) |-> Mutation("set_local_branch", names[i], None)],
            FALSE, finish_ok)

\* BranchSubcommand::Delete
CmdDelete(v, names, finish_ok) ==
    IF ~validate_branch_names_exist(v, names) THEN Fail(v, "UnknownBranch", FALSE)
    ELSE FinishTransaction(v,
            [i \in 1..Len(names) |-> Mutation("remove_local_branch", names[i], None)],
            FALSE, finish_ok)

\* the BTreeSet of the explicit names and the globbed ones
ForgetNames(v, names, globs) ==
    {names[i] : i \in 1..Len(names)} \cup find_globs(v, globs)

\* mutant: the explicit names are removed before the globs are compiled
CmdForget_globs_late(v, names, globs, finish_ok) ==
    IF ~validate_branch_names_exist(v, names) THEN Fail(v, "UnknownBranch", FALSE)
    ELSE IF ~find_globs_ok(globs)
         THEN Outcome("InvalidGlobPattern", v, TRUE,
                      [i \in 1..Len(names) |-> Mutation("remove_branch", names[i], None)],
                      FALSE)
    ELSE LET sorted == SortedSeq(ForgetNames(v, names, globs))
         IN  FinishTransaction(v,
                [i \in 1..Len(sorted) |-> Mutation("remove_branch", sorted[i], None)],
                FALSE, finish_ok)

\* BranchSubcommand::Forget
CmdForget(v, names, globs, finish_ok) ==
    IF ~validate_branch_names_exist(v, names) THEN Fail(v, "UnknownBranch", FALSE)
    ELSE IF ~find_globs_ok(globs) THEN Fail(v, "InvalidGlobPattern", FALSE)
    ELSE LET sorted == SortedSeq(ForgetNames(v, names, globs))
         IN  FinishTransaction(v,
                [i \in 1..Len(sorted) |-> Mutation("remove_branch", sorted[i], None)],
                FALSE, finish_ok)

(***************************************************************************)
(* list_branches: the lines written to stdout, in order.                   *)
(***************************************************************************)
Count(label, n) == [label |-> label, count |-> n]

\* mutant: every commit the remote reaches counts as ahead
remote_ahead_count_all(local_target, remote_target) ==
    Cardinality(WalkRevs(Adds(remote_target), {}))

\* the commits only the remote target reaches
remote_ahead_count(local_target, remote_target) ==
    Cardinality(WalkRevs(Adds(remote_target), Adds(local_target)))

\* mutant: only the local heads the remote does not name are counted
local_ahead_count_heads(local_target, remote_target) ==
    Cardinality(Adds(local_target) \ Adds(remote_target))

\* the commits only the local target reaches
local_ahead_count(local_target, remote_target) ==
    Cardinality(WalkRevs(Adds(local_target), Adds(remote_target)))

\* mutant: the two counts trade places
Divergence_swapped(local_target, remote_target) ==
    IF local_target = None THEN <<>>
    ELSE LET ahead == local_ahead_count(local_target, remote_target)
             behind == remote_ahead_count(local_target, remote_target)
         IN  IF ahead # 0 /\ behind = 0
                 THEN <<Count("ahead", ahead)>>
             ELSE IF ahead = 0 /\ behind # 0
                 THEN <<Count("behind", behind)>>
             ELSE IF ahead # 0 /\ behind # 0
                 THEN <<Count("ahead", ahead), Count("behind", behind)>>
             ELSE <<>>

\* mutant: both counts are printed as soon as one of them is not zero
Divergence_either(local_target, remote_target) ==
    IF local_target = None THEN <<>>
    ELSE LET ahead == remote_ahead_count(local_target, remote_target)
             behind == local_ahead_count(local_target, remote_target)
         IN  IF ahead # 0 \/ behind # 0
                 THEN <<Count("ahead", ahead), Count("behind", behind)>>
             ELSE <<>>

\* the "(ahead by ..., behind by ...)" part of a remote's line
Divergence(local_target, remote_target) ==
    IF local_target = None THEN <<>>
    ELSE IF /\ remote_ahead_count(local_target, remote_target) # 0
            /\ local_ahead_count(local_target, remote_target) = 0
        THEN <<Count("ahead", remote_ahead_count(local_target, remote_target))>>
    ELSE IF /\ remote_ahead_count(local_target, remote_target) = 0
            /\ local_ahead_count(local_target, remote_target) # 0
        THEN <<Count("behind", local_ahead_count(local_target, remote_target))>>
    ELSE IF /\ remote_ahead_count(local_target, remote_target) # 0
            /\ local_ahead_count(local_target, remote_target) # 0
        THEN <<Count("ahead", remote_ahead_count(local_target, remote_target)),
               Count("behind", local_ahead_count(local_target, remote_target))>>
    ELSE <<>>

\* one printed entry: the branch itself (remote = <<>>) or one of its remotes;
\* a target of None prints as "(deleted)"
Line(name, remote, divergence, target) ==
    [branch |-> name, remote |-> remote, divergence |-> divergence, target |-> target]

\* mutant: a remote equal to the local target is printed too
RECURSIVE RemoteLines_all(_, _, _)
RemoteLines_all(name, branch_target, remotes) ==
    IF remotes = <<>> THEN <<>>
    ELSE LET remote == Head(remotes)
             remote_target == branch_target.remote_targets[remote]
         IN  <<Line(name, remote,
                    Divergence(branch_target.local_target, remote_target),
                    remote_target)>>
             \o RemoteLines_all(name, branch_target, Tail(remotes))

RECURSIVE RemoteLines(_, _, _)
RemoteLines(name, branch_target, remotes) ==
    IF remotes = <<>> THEN <<>>
    ELSE LET remote == Head(remotes)
             remote_target == branch_target.remote_targets[remote]
             rest == RemoteLines(name, branch_target, Tail(remotes))
         IN  IF remote_target = branch_target.local_target THEN rest
             ELSE <<Line(name, remote,
                         Divergence(branch_target.local_target, remote_target),
                         remote_target)>> \o rest

RECURSIVE BranchLines(_, _)
BranchLines(v, names) ==
    IF names = <<>> THEN <<>>
    ELSE LET name == Head(names)
         IN  <<Line(name, <<>>, <<>>, v[name].local_target)>>
             \o RemoteLines(name, v[name], SortedSeq(DOMAIN v[name].remote_targets))
             \o BranchLines(v, Tail(names))

list_branches(v) == BranchLines(v, SortedSeq(DOMAIN v))

(***************************************************************************)
(* The state: the repo's view, and the last command with what it did.      *)
(***************************************************************************)
VARIABLES
    view,        \* the view of the repo at head
    before,      \* the view the last command started from
    cmd,         \* the last command and its arguments
    result,      \* "Ok" or the error it returned
    tx_started,  \* whether it called start_transaction
    mutations,   \* the calls it made on the transaction's repo
    warned,      \* whether it wrote the multiple-branches warning
    output,      \* the lines it wrote to stdout
    prev         \* the command run before the last one, where that is recorded

vars == <<view, before, cmd, result, tx_started, mutations, warned, output, prev>>

Command(op, names, revision, allow_backwards, glob) ==
    [op |-> op, names |-> names, revision |-> revision,
     allow_backwards |-> allow_backwards, glob |-> glob]

\* what is recorded of an earlier command
Earlier(op, names, res) == [op |-> op, names |-> names, result |-> res]

\* argument lists
NameLists == UNION {[1..k -> BranchNames] : k \in 1..MaxNames}

\* "a*" matches both branch names, "?" only "a", "[" does not compile
Patterns == {<<"a", "*">>, <<"?">>, <<"[">>}

GlobLists == UNION {[1..k -> Patterns] : k \in 0..MaxGlobs}

\* views a repo can hold: no record without any target
RemoteMaps == UNION {[R -> Targets] : R \in SUBSET Remotes}

BranchTargets ==
    {BranchTarget(l, r) : l \in Targets \cup {None}, r \in RemoteMaps}
        \ {BranchTarget(None, EmptyMap)}

TargetCount(v) ==
    Cardinality({n \in DOMAIN v : v[n].local_target # None})
    + Cardinality({<<n, r>> \in (DOMAIN v) \X Remotes : r \in DOMAIN v[n].remote_targets})

\* the views a first command may find: up to two targets, set by earlier
\* commands, fetches and merges of concurrent operations
InitViews ==
    {v \in UNION {[D -> BranchTargets] : D \in SUBSET BranchNames} :
        TargetCount(v) \in 0..2}

Init ==
    /\ view \in InitViews
    /\ before = view
    /\ cmd = Command("None", <<>>, {}, FALSE, <<>>)
    /\ result = "Ok"
    /\ tx_started = FALSE
    /\ mutations = <<>>
    /\ warned = FALSE
    /\ output = <<>>
    /\ prev = Earlier("None", <<>>, "Ok")

\* no command is running: the state a new jj process starts from
Idle == cmd.op = "None"

\* one command runs to completion; finishing the transaction may fail
Run(c, outcomes, lines) ==
    /\ Idle
    /\ \E outcome \in outcomes :
        /\ view' = outcome.view
        /\ before' = view
        /\ cmd' = c
        /\ result' = outcome.result
        /\ tx_started' = outcome.tx_started
        /\ mutations' = outcome.mutations
        /\ warned' = outcome.warned
        /\ output' = lines
        /\ prev' = prev

Create ==
    \E names \in NameLists, revision \in Revisions :
        Run(Command("Create", names, revision, FALSE, <<>>),
            {CmdCreate(view, names, revision, finish_ok) : finish_ok \in BOOLEAN}, <<>>)

Set ==
    \E names \in NameLists, revision \in Revisions, allow_backwards \in BOOLEAN :
        Run(Command("Set", names, revision, allow_backwards, <<>>),
            {CmdSet(view, names, revision, allow_backwards, finish_ok) :
                finish_ok \in BOOLEAN}, <<>>)

Delete ==
    \E names \in NameLists :
        Run(Command("Delete", names, {}, FALSE, <<>>),
            {CmdDelete(view, names, finish_ok) : finish_ok \in BOOLEAN}, <<>>)

\* clap: names are required unless a glob is present
Forget ==
    \E names \in NameLists \cup {<<>>}, glob \in GlobLists :
        /\ names # <<>> \/ glob # <<>>
        /\ Run(Command("Forget", names, {}, FALSE, glob),
               {CmdForget(view, names, glob, finish_ok) : finish_ok \in BOOLEAN}, <<>>)

List ==
    Run(Command("List", <<>>, {}, FALSE, <<>>),
        {Outcome("Ok", view, FALSE, <<>>, FALSE)}, list_branches(view))

\* the process exits; the next one loads the view the repo now holds
Leave(earlier) ==
    /\ ~Idle
    /\ view' = view
    /\ before' = view
    /\ cmd' = Command("None", <<>>, {}, FALSE, <<>>)
    /\ result' = "Ok"
    /\ tx_started' = FALSE
    /\ mutations' = <<>>
    /\ warned' = FALSE
    /\ output' = <<>>
    /\ prev' = earlier

Exit == Leave(prev)

Next == Create \/ Set \/ Delete \/ Forget \/ List \/ Exit

Spec == Init /\ [][Next]_vars

(***************************************************************************)
(* The two counts of list_branches as a function of a local and a remote   *)
(* target: every branch of a view takes its targets from DivTargets and    *)
(* the counts of every pair are taken, equal pairs included.               *)
(***************************************************************************)
\* Targets and a second conflict with the heads of Conflict({3, 4}, {2})
DivTargets == Targets \cup {Conflict({3, 4}, {1})}

DivViews ==
    [BranchNames -> {BranchTarget(l, [r \in Remotes |-> t]) : l, t \in DivTargets}]

DivInit ==
    /\ view \in DivViews
    /\ before = view
    /\ cmd = Command("None", <<>>, {}, FALSE, <<>>)
    /\ result = "Ok"
    /\ tx_started = FALSE
    /\ mutations = <<>>
    /\ warned = FALSE
    /\ output = <<>>
    /\ prev = Earlier("None", <<>>, "Ok")

\* the counts of one remote of one branch
Counts(name, remote, local_target, remote_target) ==
    [branch |-> name, remote |-> remote,
     local_target |-> local_target, remote_target |-> remote_target,
     ahead |-> remote_ahead_count(local_target, remote_target),
     behind |-> local_ahead_count(local_target, remote_target)]

RECURSIVE RemoteCounts(_, _, _)
RemoteCounts(name, branch_target, remotes) ==
    IF remotes = <<>> THEN <<>>
    ELSE <<Counts(name, Head(remotes), branch_target.local_target,
                  branch_target.remote_targets[Head(remotes)])>>
         \o RemoteCounts(name, branch_target, Tail(remotes))

RECURSIVE BranchCounts(_, _)
BranchCounts(v, names) ==
    IF names = <<>> THEN <<>>
    ELSE RemoteCounts(Head(names), v[Head(names)],
                      SortedSeq(DOMAIN v[Head(names)].remote_targets))
         \o BranchCounts(v, Tail(names))

AheadBehind ==
    /\ Idle
    /\ cmd' = Command("AheadBehind", <<>>, {}, FALSE, <<>>)
    /\ output' = BranchCounts(view, SortedSeq(DOMAIN view))
    /\ before' = view
    /\ UNCHANGED <<view, result, tx_started, mutations, warned, prev>>

DivNext == AheadBehind

SpecDiv == DivInit /\ [][DivNext]_vars

(***************************************************************************)
(* Two commands in a row on one name: each command names one branch, and   *)
(* the process that exits leaves behind what it ran and how it ended.      *)
(***************************************************************************)
OneName == {<<n>> : n \in BranchNames}

CreateOne ==
    \E names \in OneName, revision \in Revisions :
        Run(Command("Create", names, revision, FALSE, <<>>),
            {CmdCreate(view, names, revision, finish_ok) : finish_ok \in BOOLEAN}, <<>>)

DeleteOne ==
    \E names \in OneName :
        Run(Command("Delete", names, {}, FALSE, <<>>),
            {CmdDelete(view, names, finish_ok) : finish_ok \in BOOLEAN}, <<>>)

ForgetOne ==
    \E names \in OneName :
        Run(Command("Forget", names, {}, FALSE, <<>>),
            {CmdForget(view, names, <<>>, finish_ok) : finish_ok \in BOOLEAN}, <<>>)

ExitRecorded == Leave(Earlier(cmd.op, cmd.names, result))

OrderNext == CreateOne \/ DeleteOne \/ ForgetOne \/ List \/ ExitRecorded

SpecOrder == Init /\ [][OrderNext]_vars

(***************************************************************************)
(* Properties.  Each is read in the state a command leaves behind: `cmd`   *)
(* with its arguments, `before` and `view` around it, and what it did.     *)
(***************************************************************************)
\* the names given to the last command
ArgNames == {cmd.names[i] : i \in 1..Len(cmd.names)}

\* the revision of the last command resolved to one commit, Proposed
Resolved == Cardinality(cmd.revision) = 1

Proposed == CHOOSE c \in cmd.revision : TRUE

\* the local target of a name in a view, None when it has none
LocalTarget(v, n) == IF n \in DOMAIN v THEN v[n].local_target ELSE None

\* the remote targets of a name in a view
RemoteTargets(v, n) == IF n \in DOMAIN v THEN v[n].remote_targets ELSE EmptyMap

\* the failures of validation
ValidationFailures ==
    {"NameCollision", "UnknownBranch", "AmbiguousRevision", "NoSuchRevision",
     "NonFastForward", "InvalidGlobPattern"}

\* set without --allow-backwards on one branch whose local target is conflicted
ConflictedSet ==
    /\ cmd.op = "Set"
    /\ ~cmd.allow_backwards
    /\ Resolved
    /\ Len(cmd.names) = 1
    /\ LocalTarget(before, cmd.names[1]).kind = "Conflict"

\* C1 as stated: a set on a conflicted branch is let through if and only if
\* EVERY head of the conflict is an ancestor of the proposed commit.
C1_EveryHeadIsAncestor ==
    ConflictedSet =>
        (result # "NonFastForward"
            <=> \A add \in LocalTarget(before, cmd.names[1]).adds :
                    IsAncestor(add, Proposed))

\* C1 amended: a set on a conflicted branch is let through if and only if
\* AT LEAST ONE head of the conflict is an ancestor of the proposed commit.
C1_SomeHeadIsAncestor ==
    ConflictedSet =>
        (result # "NonFastForward"
            <=> \E add \in LocalTarget(before, cmd.names[1]).adds :
                    IsAncestor(add, Proposed))

\* a conflicted branch was moved to a commit that descends from one of its
\* heads and not from the other
C1_Witness ==
    /\ ConflictedSet
    /\ result = "Ok"
    /\ \E add \in LocalTarget(before, cmd.names[1]).adds : IsAncestor(add, Proposed)
    /\ \E add \in LocalTarget(before, cmd.names[1]).adds : ~IsAncestor(add, Proposed)
    /\ LocalTarget(view, cmd.names[1]) = Normal(Proposed)

\* a name of the batch whose current local target has no head that is an
\* ancestor of the proposed commit: the fast-forward check fails for it
FailsFastForward(n) ==
    /\ LocalTarget(before, n) # None
    /\ \A add \in LocalTarget(before, n).adds : ~IsAncestor(add, Proposed)

\* C2: when the fast-forward check fails for one name of a set without
\* --allow-backwards, the command fails with NonFastForward and no name of the
\* batch moves; a set never leaves only some of its names updated.
C2_SetIsAllOrNothing ==
    cmd.op = "Set" =>
        /\ (~cmd.allow_backwards /\ Resolved /\ \E n \in ArgNames : FailsFastForward(n))
              => (result = "NonFastForward" /\ view = before /\ mutations = <<>>)
        /\ \/ view = before
           \/ \A n \in ArgNames : LocalTarget(view, n) = Normal(Proposed)

\* a batch of two branches, one that would fast-forward and one that would
\* not, was refused
C2_Witness ==
    /\ cmd.op = "Set"
    /\ ~cmd.allow_backwards
    /\ Resolved
    /\ result = "NonFastForward"
    /\ \E n \in ArgNames : FailsFastForward(n)
    /\ \E n \in ArgNames :
          /\ LocalTarget(before, n) # None
          /\ LocalTarget(before, n) # Normal(Proposed)
          /\ \E add \in LocalTarget(before, n).adds : IsAncestor(add, Proposed)

\* C3: a command that fails in validation has started no transaction, has
\* issued no mutation and leaves the view as it found it.
C3_ValidateBeforeMutate ==
    result \in ValidationFailures =>
        (~tx_started /\ mutations = <<>> /\ view = before)

\* forget failed on its last validation step, the glob patterns, after its
\* explicit names had been accepted
C3_Witness ==
    /\ cmd.op = "Forget"
    /\ result = "InvalidGlobPattern"
    /\ cmd.names # <<>>
    /\ ~tx_started
    /\ view = before

\* create with a name given twice, none of its names having a local target
DuplicateCreate ==
    /\ cmd.op = "Create"
    /\ \E i, j \in 1..Len(cmd.names) : i < j /\ cmd.names[i] = cmd.names[j]
    /\ \A n \in ArgNames : LocalTarget(before, n) = None

\* C4 as stated: create with a repeated name fails with NameCollision and
\* the name has no local target afterwards.
C4_DuplicateCollides ==
    (DuplicateCreate /\ Resolved) =>
        /\ result = "NameCollision"
        /\ \A n \in ArgNames : LocalTarget(view, n) = None

\* C4 amended: create with a repeated name never fails with NameCollision;
\* when its revision resolves it runs its transaction, with one
\* set_local_branch per occurrence, and on success every name has local
\* target Normal(commit); on any failure the view is unchanged.
C4_DuplicateIsCreated ==
    DuplicateCreate =>
        /\ result # "NameCollision"
        /\ Resolved => /\ tx_started
                       /\ Len(mutations) = Len(cmd.names)
                       /\ result \in {"Ok", "TransactionConflict"}
        /\ result = "Ok" => \A n \in ArgNames : LocalTarget(view, n) = Normal(Proposed)
        /\ result # "Ok" => view = before

\* create with the same name twice succeeded
C4_Witness ==
    /\ DuplicateCreate
    /\ result = "Ok"
    /\ \A n \in ArgNames : LocalTarget(view, n) = Normal(Proposed)

\* some name of the batch had a local target
Collides == \E n \in ArgNames : LocalTarget(before, n) # None

\* C5: create fails with NameCollision, the view unchanged, when a name of
\* the batch already has a local target, and only then; otherwise, when the
\* revision resolves to one commit and the transaction finishes, every name
\* has local target Normal(commit).
C5_CreateCollisionAndResult ==
    cmd.op = "Create" =>
        /\ Collides <=> result = "NameCollision"
        /\ Collides => (view = before /\ mutations = <<>>)
        /\ (~Collides /\ Resolved /\ result # "TransactionConflict")
              => /\ result = "Ok"
                 /\ \A n \in ArgNames : LocalTarget(view, n) = Normal(Proposed)

\* a batch of a free name and a taken name was refused, and the free name
\* was not created
C5_Witness ==
    /\ cmd.op = "Create"
    /\ result = "NameCollision"
    /\ \E n \in ArgNames : LocalTarget(before, n) = None /\ LocalTarget(view, n) = None
    /\ \E n \in ArgNames : LocalTarget(before, n) # None

\* C6: delete fails with UnknownBranch when a name of the batch has no local
\* target, also one that has remote targets only, and then no name loses its
\* local target; when all have one and the transaction finishes, none has
\* one afterwards.
C6_DeleteNeedsLocalTarget ==
    cmd.op = "Delete" =>
        /\ (\E n \in ArgNames : LocalTarget(before, n) = None)
              => (result = "UnknownBranch" /\ view = before /\ mutations = <<>>)
        /\ ((\A n \in ArgNames : LocalTarget(before, n) # None)
                /\ result # "TransactionConflict")
              => /\ result = "Ok"
                 /\ \A n \in ArgNames : LocalTarget(view, n) = None

\* delete of a branch with a local target and a branch with remote targets
\* only was refused
C6_Witness ==
    /\ cmd.op = "Delete"
    /\ result = "UnknownBranch"
    /\ \E n \in ArgNames : n \in DOMAIN before /\ before[n].local_target = None
    /\ \E n \in ArgNames : LocalTarget(before, n) # None /\ LocalTarget(view, n) # None

\* the names a forget selects: the explicit ones and the names of the view
\* that match a glob
Selected ==
    ArgNames \cup {n \in DOMAIN before :
                      \E i \in 1..Len(cmd.glob) : PatternMatches(cmd.glob[i], n)}

\* C7: a successful forget removes from the view exactly the explicit names
\* and the names, with or without a local target, that match a glob; every
\* other record is unchanged.
C7_ForgetRemovesSelected ==
    (cmd.op = "Forget" /\ result = "Ok") =>
        /\ DOMAIN view = DOMAIN before \ Selected
        /\ \A n \in DOMAIN view : view[n] = before[n]

\* a glob removed a branch that had remote targets only and left the other
\* branch as it was
C7_Witness ==
    /\ cmd.op = "Forget"
    /\ result = "Ok"
    /\ cmd.names = <<>>
    /\ \E n \in DOMAIN before \ DOMAIN view : before[n].local_target = None
    /\ DOMAIN view # {}

\* C8 as stated: forget fails with UnknownBranch, the view unchanged, exactly
\* when an explicit name is not in the view; a name with a local target or a
\* remote target is accepted, and a glob that matches nothing is no error.
C8_ForgetAcceptsNamesInView ==
    cmd.op = "Forget" =>
        /\ result = "UnknownBranch" <=> \E n \in ArgNames : n \notin DOMAIN before
        /\ result = "UnknownBranch" => view = before

\* the local and the remote target a printed remote line compares
LineLocal(line) == LocalTarget(before, line.branch)

\* the remote lines of the last list whose branch has a local target
ComparedLines ==
    {output[i] : i \in {k \in 1..Len(output) :
                           output[k].remote # <<>> /\ LineLocal(output[k]) # None}}

\* C9 as stated: "ahead by N" counts the commits reachable from the local
\* target's adds and not from the remote's, "behind by N" the reverse.
C9_AheadIsLocalOnly ==
    cmd.op = "List" =>
        \A line \in ComparedLines : \A i \in 1..Len(line.divergence) :
            LET d == line.divergence[i]
                local_only == WalkRevs(LineLocal(line).adds, line.target.adds)
                remote_only == WalkRevs(line.target.adds, LineLocal(line).adds)
            IN  /\ d.label = "ahead" => d.count = Cardinality(local_only)
                /\ d.label = "behind" => d.count = Cardinality(remote_only)

\* C9 amended: "ahead by N" counts the commits reachable from the remote
\* target's adds and not from the local's, "behind by N" those reachable from
\* the local target's adds and not from the remote's.
C9_AheadIsRemoteOnly ==
    cmd.op = "List" =>
        \A line \in ComparedLines : \A i \in 1..Len(line.divergence) :
            LET d == line.divergence[i]
                local_only == WalkRevs(LineLocal(line).adds, line.target.adds)
                remote_only == WalkRevs(line.target.adds, LineLocal(line).adds)
            IN  /\ d.label = "ahead" => d.count = Cardinality(remote_only)
                /\ d.label = "behind" => d.count = Cardinality(local_only)

\* a remote three commits past the local target was listed as ahead by 3
C9_Witness ==
    /\ cmd.op = "List"
    /\ \E line \in ComparedLines :
          /\ LineLocal(line) = Normal(1)
          /\ line.target = Normal(4)
          /\ line.divergence = <<Count("ahead", 3)>>

\* C10: create, set, delete and list, failed or not, leave the remote
\* targets of every branch name as they were; a remote target goes away only
\* in a forget.
C10_RemoteTargetsFramed ==
    /\ cmd.op \in {"Create", "Set", "Delete", "List"}
          => \A n \in BranchNames : RemoteTargets(view, n) = RemoteTargets(before, n)
    /\ (\E n \in BranchNames : RemoteTargets(view, n) # RemoteTargets(before, n))
          => (cmd.op = "Forget" /\ result = "Ok")

\* delete cleared the local target of a branch and its remote target stayed
C10_Witness ==
    /\ cmd.op = "Delete"
    /\ result = "Ok"
    /\ \E n \in ArgNames :
          /\ n \in DOMAIN view
          /\ view[n].local_target = None
          /\ DOMAIN view[n].remote_targets # {}
          /\ view[n].remote_targets = before[n].remote_targets

\* set without --allow-backwards on one branch whose local target is Normal
SingleSet ==
    /\ cmd.op = "Set"
    /\ ~cmd.allow_backwards
    /\ Resolved
    /\ Len(cmd.names) = 1
    /\ LocalTarget(before, cmd.names[1]).kind = "Normal"

\* the commit that branch pointed to
Current == CHOOSE c \in LocalTarget(before, cmd.names[1]).adds : TRUE

\* C11: a set on a branch at Single(c) is let through if and only if c is an
\* ancestor of the proposed commit, c itself included; along every chain
\* a -> b -> c the move from a to c is let through and the move from c to a
\* is refused.
C11_SingleTargetFastForward ==
    SingleSet =>
        /\ result # "NonFastForward" <=> IsAncestor(Current, Proposed)
        /\ Current = Proposed => result # "NonFastForward"
        /\ \A a, b, c \in Commits :
              (a \in Parents(b) /\ b \in Parents(c)) =>
                  /\ (Current = a /\ Proposed = c) => result # "NonFastForward"
                  /\ (Current = c /\ Proposed = a) => result = "NonFastForward"

\* a branch was set to the commit it already pointed to
C11_Witness ==
    /\ SingleSet
    /\ Current = Proposed
    /\ result = "Ok"
    /\ LocalTarget(view, cmd.names[1]) = Normal(Proposed)

\* C12: a set without --allow-backwards whose names have no local target, in
\* the view or not, is never refused: once the revision resolves and the
\* transaction finishes every name has local target Normal(commit).  A name
\* without a local target never makes a batch fail the fast-forward check.
C12_SetCreatesMissingBranch ==
    (cmd.op = "Set" /\ ~cmd.allow_backwards /\ Resolved) =>
        /\ (\A n \in ArgNames : LocalTarget(before, n) = None)
              => /\ result \in {"Ok", "TransactionConflict"}
                 /\ result = "Ok" =>
                       \A n \in ArgNames : LocalTarget(view, n) = Normal(Proposed)
        /\ result = "NonFastForward" => \E n \in ArgNames : FailsFastForward(n)

\* set gave a local target to a name the view did not hold and to a name
\* that had remote targets only
C12_Witness ==
    /\ cmd.op = "Set"
    /\ ~cmd.allow_backwards
    /\ result = "Ok"
    /\ \E n \in ArgNames : n \notin DOMAIN before /\ LocalTarget(view, n) = Normal(Proposed)
    /\ \E n \in ArgNames :
          /\ n \in DOMAIN before
          /\ before[n].local_target = None
          /\ LocalTarget(view, n) = Normal(Proposed)

\* the positions of the last list's output that print remote r of branch n
RemoteLinesOf(n, r) ==
    {i \in 1..Len(output) : output[i].branch = n /\ output[i].remote = r}

\* C13: list prints a line for a remote of a branch if and only if the
\* remote's target differs by value from the branch's local target; an equal
\* remote has no line, and every remote of a branch without a local target
\* has one.
C13_RemoteLineIffDifferent ==
    cmd.op = "List" =>
        /\ \A n \in DOMAIN before : \A r \in DOMAIN before[n].remote_targets :
              IF before[n].remote_targets[r] = before[n].local_target
              THEN RemoteLinesOf(n, r) = {}
              ELSE /\ Cardinality(RemoteLinesOf(n, r)) = 1
                   /\ \A i \in RemoteLinesOf(n, r) :
                         output[i].target = before[n].remote_targets[r]
        /\ \A i \in 1..Len(output) :
              output[i].remote # <<>> =>
                  /\ output[i].branch \in DOMAIN before
                  /\ output[i].remote \in DOMAIN before[output[i].branch].remote_targets

\* a branch whose remote equals its local target was listed without a remote
\* line, next to a branch without a local target whose remote was listed
C13_Witness ==
    /\ cmd.op = "List"
    /\ \E n \in DOMAIN before : \E r \in DOMAIN before[n].remote_targets :
          /\ before[n].local_target # None
          /\ before[n].remote_targets[r] = before[n].local_target
          /\ RemoteLinesOf(n, r) = {}
    /\ \E n \in DOMAIN before : \E r \in DOMAIN before[n].remote_targets :
          /\ before[n].local_target = None
          /\ RemoteLinesOf(n, r) # {}

\* the divergence the reporting rule asks for, from the count printed as
\* ahead and the count printed as behind
Reported(ahead, behind) ==
    (IF ahead # 0 THEN <<Count("ahead", ahead)>> ELSE <<>>)
        \o (IF behind # 0 THEN <<Count("behind", behind)>> ELSE <<>>)

\* C14: on a remote's line nothing is printed when both counts are 0, only
\* the ahead part when only that count is not 0, only the behind part when
\* only that count is not 0, both when neither is 0; for a branch without a
\* local target nothing is printed.
C14_ReportingRule ==
    cmd.op = "List" =>
        \A i \in 1..Len(output) :
            LET line == output[i]
                local == LineLocal(line)
            IN  line.remote # <<>> =>
                    IF local = None THEN line.divergence = <<>>
                    ELSE line.divergence =
                            Reported(Cardinality(WalkRevs(line.target.adds, local.adds)),
                                     Cardinality(WalkRevs(local.adds, line.target.adds)))

\* a remote that differs from the local target but reaches the same commits
\* was listed without any count
C14_Witness ==
    /\ cmd.op = "List"
    /\ \E i \in 1..Len(output) :
          /\ output[i].remote # <<>>
          /\ LineLocal(output[i]) # None
          /\ LineLocal(output[i]) # output[i].target
          /\ output[i].divergence = <<>>

\* C15: no view holds a branch name with neither a local target nor a
\* remote target; a delete of a branch without remote targets takes the name
\* out of the view.
C15_NoEmptyBranchRecord ==
    /\ \A n \in DOMAIN view :
          view[n].local_target # None \/ DOMAIN view[n].remote_targets # {}
    /\ (cmd.op = "Delete" /\ result = "Ok") =>
          \A n \in ArgNames : DOMAIN before[n].remote_targets = {} => n \notin DOMAIN view

\* delete removed the record of a branch that had no remote target
C15_Witness ==
    /\ cmd.op = "Delete"
    /\ result = "Ok"
    /\ \E n \in ArgNames :
          /\ DOMAIN before[n].remote_targets = {}
          /\ n \notin DOMAIN view

\* C16: a set with --allow-backwards never fails with NonFastForward; once
\* the revision resolves and the transaction finishes every name has local
\* target Normal(commit), wherever the commit lies relative to the current
\* targets.
C16_AllowBackwards ==
    (cmd.op = "Set" /\ cmd.allow_backwards) =>
        /\ result # "NonFastForward"
        /\ Resolved =>
              /\ result \in {"Ok", "TransactionConflict"}
              /\ result = "Ok" =>
                    \A n \in ArgNames : LocalTarget(view, n) = Normal(Proposed)

\* with --allow-backwards a batch was moved to a commit that is an ancestor
\* of one branch's target and unrelated to the other's
C16_Witness ==
    /\ cmd.op = "Set"
    /\ cmd.allow_backwards
    /\ result = "Ok"
    /\ \E n \in ArgNames :
          /\ LocalTarget(before, n) = Normal(4)
          /\ Proposed = 2
    /\ \E n \in ArgNames : LocalTarget(before, n) = Normal(3)
    /\ \A n \in ArgNames : LocalTarget(view, n) = Normal(Proposed)

\* the names whose local target is a conflict
Conflicted(v) == {n \in DOMAIN v : v[n].local_target.kind = "Conflict"}

\* C19: every local target a command writes is Normal(commit), so no
\* command adds a name to those with a conflicted local target, and a
\* successful set on a conflicted branch leaves it with a Normal target.
C19_NoConflictIsWritten ==
    /\ \A i \in 1..Len(mutations) :
          mutations[i].call = "set_local_branch" => mutations[i].target.kind = "Normal"
    /\ Conflicted(view) \subseteq Conflicted(before)
    /\ (cmd.op = "Set" /\ result = "Ok") =>
          \A n \in ArgNames : LocalTarget(view, n).kind = "Normal"

\* a set moved a conflicted branch to a commit
C19_Witness ==
    /\ cmd.op = "Set"
    /\ result = "Ok"
    /\ \E n \in ArgNames :
          /\ LocalTarget(before, n).kind = "Conflict"
          /\ LocalTarget(view, n) = Normal(Proposed)

\* C17: the two counts of a target against itself are 0 and 0, and both
\* counts are 0 whenever the local and the remote target have the same adds.
C17_DivergenceReflexive ==
    cmd.op = "AheadBehind" =>
        \A i \in 1..Len(output) :
            output[i].local_target.adds = output[i].remote_target.adds =>
                /\ output[i].ahead = 0
                /\ output[i].behind = 0

\* the counts were taken of a conflict against itself and of two conflicts
\* that differ only in their removes
C17_Witness ==
    /\ cmd.op = "AheadBehind"
    /\ \E i \in 1..Len(output) :
          /\ output[i].local_target.kind = "Conflict"
          /\ output[i].local_target = output[i].remote_target
          /\ output[i].ahead = 0
          /\ output[i].behind = 0
    /\ \E i \in 1..Len(output) :
          /\ output[i].local_target # output[i].remote_target
          /\ output[i].local_target.adds = output[i].remote_target.adds
          /\ output[i].ahead = 0
          /\ output[i].behind = 0

\* C18: the counts taken with local = R and remote = L are the counts taken
\* with local = L and remote = R, ahead and behind exchanged.
C18_DivergenceSymmetric ==
    cmd.op = "AheadBehind" =>
        \A i, j \in 1..Len(output) :
            (/\ output[i].local_target = output[j].remote_target
             /\ output[i].remote_target = output[j].local_target) =>
                /\ output[i].ahead = output[j].behind
                /\ output[i].behind = output[j].ahead

\* two branches held each other's targets and the counts, 2 and 0, came
\* out exchanged
C18_Witness ==
    /\ cmd.op = "AheadBehind"
    /\ \E i, j \in 1..Len(output) :
          /\ output[i].local_target = output[j].remote_target
          /\ output[i].remote_target = output[j].local_target
          /\ output[i].ahead = 2
          /\ output[i].behind = 0
          /\ output[j].ahead = 0
          /\ output[j].behind = 2

\* the earlier command ended well, was op and named n
After(op, n) ==
    /\ prev.op = op
    /\ prev.result = "Ok"
    /\ \E i \in 1..Len(prev.names) : prev.names[i] = n

\* the last command was op on the one name n
Now(op, n) == cmd.op = op /\ cmd.names = <<n>>

\* C20: right after a successful create of n, a create of n fails with
\* NameCollision and a delete of n succeeds; right after a successful
\* delete or forget of n, a delete of n fails with UnknownBranch and a
\* create of n succeeds.  A delete of a branch with remote targets leaves the
\* record with an absent local target, list prints it as deleted, and a
\* create gives it a local target again and keeps the remote targets.
\* "Succeeds" is read for a revision that resolves and a transaction that
\* finishes.
C20_OrderOnOneName ==
    \A n \in BranchNames :
        /\ After("Create", n) =>
              /\ Now("Create", n) => result = "NameCollision"
              /\ Now("Delete", n) =>
                    /\ result \in {"Ok", "TransactionConflict"}
                    /\ result = "Ok" => LocalTarget(view, n) = None
        /\ (After("Delete", n) \/ After("Forget", n)) =>
              /\ Now("Delete", n) => result = "UnknownBranch"
              /\ Now("Create", n) =>
                    /\ result # "NameCollision"
                    /\ Resolved => result \in {"Ok", "TransactionConflict"}
                    /\ result = "Ok" =>
                          /\ LocalTarget(view, n) = Normal(Proposed)
                          /\ RemoteTargets(view, n) = RemoteTargets(before, n)
        /\ (Now("Delete", n) /\ result = "Ok" /\ DOMAIN before[n].remote_targets # {}) =>
              /\ n \in DOMAIN view
              /\ view[n] = BranchTarget(None, before[n].remote_targets)
        /\ (After("Delete", n) /\ cmd.op = "List" /\ n \in DOMAIN before) =>
              /\ before[n].local_target = None
              /\ \E i \in 1..Len(output) :
                    /\ output[i].branch = n
                    /\ output[i].remote = <<>>
                    /\ output[i].target = None

\* a branch with a remote target was deleted and then created again: it has
\* a local target and still has the remote target
C20_Witness ==
    \E n \in BranchNames :
        /\ After("Delete", n)
        /\ Now("Create", n)
        /\ result = "Ok"
        /\ n \in DOMAIN before
        /\ before[n].local_target = None
        /\ LocalTarget(view, n) = Normal(Proposed)
        /\ DOMAIN view[n].remote_targets # {}
        /\ view[n].remote_targets = before[n].remote_targets

====
